---- MODULE Spec2Model ----
(***************************************************************************)
(* Model of Edit_PDF_fields.py: a Tk utility that edits the /Rect and /P   *)
(* attributes of AcroForm widgets held in an in-memory PDF, with an undo   *)
(* stack of whole-document snapshots.                                      *)
(*                                                                         *)
(* The two PDF libraries are external.  They are modelled by what the      *)
(* source relies on: an indirect object carries an object number (objid,   *)
(* is_ref lines 25-30), a direct object does not; objgen of a direct       *)
(* object is (0, 0); object numbers survive a save; reading an attribute   *)
(* of a null object raises.                                                *)
(***************************************************************************)
EXTENDS Integers, Sequences, FiniteSets, TLC

VARIABLES current_pdf_bytes, undo_stack, pdf_path_var, tree, last

vars == <<current_pdf_bytes, undo_stack, pdf_path_var, tree, last>>

----------------------------------------------------------------------------
(* Bounds                                                                  *)

\* depth of the undo stack explored
MaxUndo == 2

----------------------------------------------------------------------------
(* PDF values                                                              *)

fake_objid == 9999

Absent == [kind |-> "absent", items |-> <<>>, objgen |-> <<0, 0>>]
Arr(s) == [kind |-> "array", items |-> s, objgen |-> <<0, 0>>]
Ref(n, g) == [kind |-> "ref", items |-> <<>>, objgen |-> <<n, g>>]

\* a dictionary object; T = "" stands for a missing /T
Dict(ind, t, sub, rect, p, kids) ==
    [kind |-> "dict", indirect |-> ind, T |-> t, Subtype |-> sub,
     Rect |-> rect, P |-> p, Kids |-> kids]

\* what a dangling reference resolves to
Null == [kind |-> "null", indirect |-> TRUE, T |-> "", Subtype |-> "",
         Rect |-> Absent, P |-> Absent, Kids |-> Absent]

Widget(ind, t, rect, p) == Dict(ind, t, "/Widget", rect, p, Absent)
Group(t, kids) == Dict(TRUE, t, "", Absent, Absent, Arr(kids))

Page(n, annots) == [obj |-> n, Annots |-> annots]

NoDoc == [AcroForm |-> "none", Fields |-> <<>>, pages |-> <<>>, objs |-> <<>>]

----------------------------------------------------------------------------
(* Files the operator can open.  objs[h] is the object behind handle h; a  *)
(* direct (inline) dictionary is an entry with indirect = FALSE that is    *)
(* held by exactly one container.                                          *)

R0 == Arr(<<1, 2, 3, 4>>)

\* two pages; field A is bound to page 1, next to a link annotation
Plain ==
    [AcroForm |-> "fields", Fields |-> <<1>>,
     pages |-> <<Page(10, Arr(<<2, 1>>)), Page(20, Absent)>>,
     objs |-> << Widget(TRUE, "A", R0, Ref(10, 0)),
                 Dict(TRUE, "", "/Link", R0, Absent, Absent) >>]

\* duplicate name: the field the locator finds (1) is on no page; the row
\* shown comes from widget 2, which is in no form
Orphan ==
    [AcroForm |-> "fields", Fields |-> <<1>>,
     pages |-> <<Page(10, Arr(<<2>>)), Page(20, Arr(<<>>))>>,
     objs |-> << Widget(TRUE, "A", Absent, Absent),
                 Widget(TRUE, "A", R0, Ref(10, 0)) >>]

\* the same with the field held as a direct dictionary in /Fields
Inline ==
    [AcroForm |-> "fields", Fields |-> <<1>>,
     pages |-> <<Page(10, Arr(<<2>>))>>,
     objs |-> << Widget(FALSE, "C", R0, Absent),
                 Widget(TRUE, "C", R0, Arr(<<>>)) >>]

\* group G with kid K and sub-group S holding D; Z is in no form; the field
\* list ends in a dangling reference
Nested ==
    [AcroForm |-> "fields", Fields |-> <<1, 6>>,
     pages |-> <<Page(10, Arr(<<2, 3, 4>>))>>,
     objs |-> << Group("G", <<2, 5>>),
                 Widget(TRUE, "K", R0, Ref(10, 0)),
                 Widget(TRUE, "D", R0, Ref(10, 0)),
                 Widget(TRUE, "Z", R0, Ref(fake_objid, 0)),
                 Group("S", <<3>>),
                 Null >>]

\* a page with a widget but no form dictionary
NoForm ==
    [AcroForm |-> "none", Fields |-> <<>>,
     pages |-> <<Page(10, Arr(<<1>>))>>,
     objs |-> << Widget(TRUE, "A", R0, Absent) >>]

\* the name T three times: group 1, its kid 2, and the later top-level field 3
Twins ==
    [AcroForm |-> "fields", Fields |-> <<1, 3>>,
     pages |-> <<Page(10, Arr(<<3, 2>>))>>,
     objs |-> << Group("T", <<2>>),
                 Widget(TRUE, "T", R0, Ref(10, 0)),
                 Widget(TRUE, "T", Absent, Ref(10, 0)) >>]

\* a form dictionary without /Fields
NoFields ==
    [AcroForm |-> "nofields", Fields |-> <<>>,
     pages |-> <<Page(10, Arr(<<1>>))>>,
     objs |-> << Widget(TRUE, "A", R0, Absent) >>]

\* form: "original" for bytes some other producer wrote, "saved" for bytes
\* in the layout pdf.save writes; id: the identity of the bytes object
Bytes(k, d, f, i) == [kind |-> k, doc |-> d, form |-> f, id |-> i]

\* current_pdf_bytes = None
None == Bytes("none", NoDoc, "", 0)

\* path -> contents on disk; "missing.pdf" cannot be read
Disk ==
    [p \in {"plain.pdf", "orphan.pdf", "inline.pdf", "nested.pdf", "noform.pdf",
            "twins.pdf", "nofields.pdf", "notes.pdf"} |->
        CASE p = "plain.pdf" -> Bytes("pdf", Plain, "original", 0)
          [] p = "orphan.pdf" -> Bytes("pdf", Orphan, "original", 0)
          [] p = "inline.pdf" -> Bytes("pdf", Inline, "original", 0)
          [] p = "nested.pdf" -> Bytes("pdf", Nested, "original", 0)
          [] p = "noform.pdf" -> Bytes("pdf", NoForm, "original", 0)
          [] p = "twins.pdf" -> Bytes("pdf", Twins, "original", 0)
          [] p = "nofields.pdf" -> Bytes("pdf", NoFields, "original", 0)
          [] OTHER -> Bytes("garbage", NoDoc, "original", 0)]

Paths == DOMAIN Disk \cup {"missing.pdf"}
Cancel == ""

\* byte-for-byte equality of two buffers (identity aside)
SameBytes(a, b) == a.kind = b.kind /\ a.doc = b.doc /\ a.form = b.form

----------------------------------------------------------------------------
(* Library calls                                                           *)

\* pikepdf.Pdf.open / fitz.open: raise on bytes that are not a PDF
CanOpen(bytes) == bytes.kind = "pdf"

\* pdf.save(buf); buf.getvalue(): a new bytes object, a function of the
\* object graph
Save(pdf, id) == Bytes("pdf", pdf, "saved", id)

\* getattr(obj, "objid", None): the object number of an indirect object;
\* 0 stands for None
ObjId(pdf, h) == IF pdf.objs[h].indirect THEN h ELSE 0

\* doc_fitz[i].xref
PageXref(pdf, i) == pdf.pages[i].obj

SetRect(pdf, h, v) == [pdf EXCEPT !.objs[h].Rect = v]
SetP(pdf, h, v) == [pdf EXCEPT !.objs[h].P = v]

----------------------------------------------------------------------------
(* Field Locator                                                           *)

NotFound == [status |-> "none", h |-> 0]
Raised == [status |-> "raise", h |-> 0]
Found(h) == [status |-> "found", h |-> h]

RECURSIVE ScanKids(_, _, _, _)
ScanKids(pdf, kids, j, field_name) ==
    IF j > Len(kids) THEN NotFound
    ELSE LET kid_obj == pdf.objs[kids[j]] IN
         IF kid_obj.kind = "null" THEN Raised
         ELSE IF kid_obj.T = field_name THEN Found(kids[j])
         ELSE ScanKids(pdf, kids, j + 1, field_name)

\* ScanFields testing the field itself before its kids
RECURSIVE ScanFields_field_first(_, _, _)
ScanFields_field_first(pdf, i, field_name) ==
    IF i > Len(pdf.Fields) THEN NotFound
    ELSE LET field_obj == pdf.objs[pdf.Fields[i]]
             in_kids == IF field_obj.Kids.kind = "array"
                        THEN ScanKids(pdf, field_obj.Kids.items, 1, field_name)
                        ELSE NotFound
         IN  IF field_obj.kind = "null" THEN Raised
             ELSE IF field_obj.T = field_name THEN Found(pdf.Fields[i])
             ELSE IF in_kids.status # "none" THEN in_kids
             ELSE ScanFields_field_first(pdf, i + 1, field_name)

RECURSIVE ScanFields(_, _, _)
ScanFields(pdf, i, field_name) ==
    IF i > Len(pdf.Fields) THEN NotFound
    ELSE LET field_obj == pdf.objs[pdf.Fields[i]]
             in_kids == IF field_obj.Kids.kind = "array"
                        THEN ScanKids(pdf, field_obj.Kids.items, 1, field_name)
                        ELSE NotFound
         IN  IF field_obj.kind = "null" THEN Raised
             ELSE IF in_kids.status # "none" THEN in_kids
             ELSE IF field_obj.T = field_name THEN Found(pdf.Fields[i])
             ELSE ScanFields(pdf, i + 1, field_name)

load_widget(pdf, field_name) ==
    IF pdf.AcroForm = "none" THEN NotFound
    ELSE IF pdf.AcroForm = "nofields" THEN NotFound
    ELSE ScanFields(pdf, 1, field_name)

----------------------------------------------------------------------------
(* Page-binding normalization; page_index is 0-based as in the source      *)

HasObjId(pdf, annots, w_id) ==
    \E k \in 1..Len(annots) : ObjId(pdf, annots[k]) = w_id

\* fix_annots_page_binding appending without the scan for the same objid
fix_annots_page_binding_no_dedup(pdf, h, page_index) ==
    LET page == pdf.pages[page_index + 1]
        pdf1 == SetP(pdf, h, Ref(page.obj, 0))
        annots == IF page.Annots.kind = "absent" THEN <<>> ELSE page.Annots.items
        w_id == ObjId(pdf, h)
        annots1 == IF w_id # 0 THEN Append(annots, h) ELSE annots
    IN  [pdf1 EXCEPT !.pages[page_index + 1].Annots = Arr(annots1)]

fix_annots_page_binding(pdf, h, page_index) ==
    LET page == pdf.pages[page_index + 1]
        pdf1 == SetP(pdf, h, Ref(page.obj, 0))
        annots == IF page.Annots.kind = "absent" THEN <<>> ELSE page.Annots.items
        w_id == ObjId(pdf, h)
        annots1 == IF w_id # 0 /\ ~HasObjId(pdf, annots, w_id)
                   THEN Append(annots, h) ELSE annots
    IN  [pdf1 EXCEPT !.pages[page_index + 1].Annots = Arr(annots1)]

----------------------------------------------------------------------------
(* Mutation procedures: the change(pdf) closures of the action_* handlers  *)

Unchanged(pdf, note) == [status |-> "unchanged", pdf |-> pdf, note |-> note]
Changed(pdf, note) == [status |-> "changed", pdf |-> pdf, note |-> note]
Raises(pdf) == [status |-> "raise", pdf |-> pdf, note |-> "exception"]

\* the field was not located: load_widget raised, or returned None
Missing(pdf, widget) ==
    IF widget.status = "raise" THEN Raises(pdf)
    ELSE Unchanged(pdf, "field not found")

change_clear_rect(pdf, name) ==
    LET widget == load_widget(pdf, name) IN
    IF widget.status # "found" THEN Missing(pdf, widget)
    ELSE Changed(SetRect(pdf, widget.h, Arr(<<>>)), "rect cleared")

\* change_delete_rect_key reporting a change whether or not /Rect was there
change_delete_rect_key_always(pdf, name) ==
    LET widget == load_widget(pdf, name) IN
    IF widget.status # "found" THEN Missing(pdf, widget)
    ELSE Changed(SetRect(pdf, widget.h, Absent), "rect deleted")

change_delete_rect_key(pdf, name) ==
    LET widget == load_widget(pdf, name) IN
    IF widget.status # "found" THEN Missing(pdf, widget)
    ELSE IF pdf.objs[widget.h].Rect.kind # "absent"
    THEN Changed(SetRect(pdf, widget.h, Absent), "rect deleted")
    ELSE Unchanged(pdf, "nothing to delete")

change_set_rect(pdf, name, rect) ==
    LET widget == load_widget(pdf, name) IN
    IF widget.status # "found" THEN Missing(pdf, widget)
    ELSE Changed(SetRect(pdf, widget.h, Arr(rect)), "rect set")

change_delete_p(pdf, name) ==
    LET widget == load_widget(pdf, name) IN
    IF widget.status # "found" THEN Missing(pdf, widget)
    ELSE IF pdf.objs[widget.h].P.kind # "absent"
    THEN Changed(SetP(pdf, widget.h, Absent), "p deleted")
    ELSE Changed(pdf, "nothing to delete p")

\* change_set_p_empty removing /P instead of storing an empty array
change_set_p_empty_deletes(pdf, name) ==
    LET widget == load_widget(pdf, name) IN
    IF widget.status # "found" THEN Missing(pdf, widget)
    ELSE Changed(SetP(pdf, widget.h, Absent), "p emptied")

change_set_p_empty(pdf, name) ==
    LET widget == load_widget(pdf, name) IN
    IF widget.status # "found" THEN Missing(pdf, widget)
    ELSE Changed(SetP(pdf, widget.h, Arr(<<>>)), "p emptied")

\* change_set_p clamping a page number out of range to the first page
change_set_p_clamps(pdf, name, page_index) ==
    LET widget == load_widget(pdf, name)
        num_pages == Len(pdf.pages)
    IN  IF widget.status # "found" THEN Missing(pdf, widget)
        ELSE IF 0 <= page_index /\ page_index < num_pages
        THEN Changed(fix_annots_page_binding(
                         SetP(pdf, widget.h, Ref(pdf.pages[page_index + 1].obj, 0)),
                         widget.h, page_index), "p set")
        ELSE Changed(fix_annots_page_binding(pdf, widget.h, 0), "p invalid")

\* change_set_p taking the field out of the other pages' annotation lists
change_set_p_moves(pdf, name, page_index) ==
    LET widget == load_widget(pdf, name)
        num_pages == Len(pdf.pages)
        bound == fix_annots_page_binding(
                     SetP(pdf, widget.h, Ref(pdf.pages[page_index + 1].obj, 0)),
                     widget.h, page_index)
        moved == [bound EXCEPT !.pages =
                     [i \in 1..num_pages |->
                         IF i = page_index + 1 \/ bound.pages[i].Annots.kind = "absent"
                         THEN bound.pages[i]
                         ELSE [bound.pages[i] EXCEPT !.Annots =
                                  Arr(SelectSeq(bound.pages[i].Annots.items,
                                                LAMBDA a : a # widget.h))]]]
    IN  IF widget.status # "found" THEN Missing(pdf, widget)
        ELSE IF 0 <= page_index /\ page_index < num_pages
        THEN Changed(moved, "p set")
        ELSE Changed(SetP(pdf, widget.h, Ref(fake_objid, 0)), "p invalid")

change_set_p(pdf, name, page_index) ==
    LET widget == load_widget(pdf, name)
        num_pages == Len(pdf.pages)
    IN  IF widget.status # "found" THEN Missing(pdf, widget)
        ELSE IF 0 <= page_index /\ page_index < num_pages
        THEN Changed(fix_annots_page_binding(
                         SetP(pdf, widget.h, Ref(pdf.pages[page_index + 1].obj, 0)),
                         widget.h, page_index), "p set")
        ELSE Changed(SetP(pdf, widget.h, Ref(fake_objid, 0)), "p invalid")

\* a mutation request: which closure, bound to which operator inputs
Req(op, name, rect, page_index) ==
    [op |-> op, name |-> name, rect |-> rect, page_index |-> page_index]

change_func(req, pdf) ==
    CASE req.op = "clear_rect" -> change_clear_rect(pdf, req.name)
      [] req.op = "delete_rect_key" -> change_delete_rect_key(pdf, req.name)
      [] req.op = "set_rect" -> change_set_rect(pdf, req.name, req.rect)
      [] req.op = "delete_p" -> change_delete_p(pdf, req.name)
      [] req.op = "set_p_empty" -> change_set_p_empty(pdf, req.name)
      [] OTHER -> change_set_p(pdf, req.name, req.page_index)

----------------------------------------------------------------------------
(* Operator input: text typed into the page prompt, as a sequence of       *)
(* characters                                                              *)

Digits == {"0", "1", "2", "3"}

DigitVal(c) == CASE c = "0" -> 0 [] c = "1" -> 1 [] c = "2" -> 2 [] OTHER -> 3

RECURSIVE StripLeft(_)
StripLeft(s) == IF s # <<>> /\ Head(s) = " " THEN StripLeft(Tail(s)) ELSE s

RECURSIVE StripRight(_)
StripRight(s) ==
    IF s # <<>> /\ s[Len(s)] = " " THEN StripRight(SubSeq(s, 1, Len(s) - 1)) ELSE s

\* str.strip()
Strip(s) == StripRight(StripLeft(s))

RECURSIVE DigitsVal(_, _)
DigitsVal(s, acc) ==
    IF s = <<>> THEN acc ELSE DigitsVal(Tail(s), 10 * acc + DigitVal(Head(s)))

AllDigits(s) == s # <<>> /\ \A k \in 1..Len(s) : s[k] \in Digits

\* int(page_str): an optional sign and decimal digits, else ValueError
IsInt(s) ==
    \/ AllDigits(s)
    \/ s # <<>> /\ Head(s) \in {"-", "+"} /\ AllDigits(Tail(s))

Int_(s) ==
    IF Head(s) = "-" THEN 0 - DigitsVal(Tail(s), 0)
    ELSE IF Head(s) = "+" THEN DigitsVal(Tail(s), 0)
    ELSE DigitsVal(s, 0)

\* what askstring can return besides Cancel
PageStrs ==
    { <<>>, <<" ">>, <<"1">>, <<" ", "2">>, <<"3">>, <<"0">>, <<"-", "1">>, <<"x">> }

\* what the four askfloat prompts can return together
RectInputs == { <<10, 20, 300, 400>> }

----------------------------------------------------------------------------
(* Field Reporter                                                          *)

\* str(float(x)) for a whole number
FloatStr(x) == ToString(x) \o ".0"

RECURSIVE JoinFloats(_)
JoinFloats(rect) ==
    IF rect = <<>> THEN ""
    ELSE IF Len(rect) = 1 THEN FloatStr(rect[1])
    ELSE FloatStr(rect[1]) \o ", " \o JoinFloats(Tail(rect))

\* annot.get("/Rect", []) formatted
RectStr(rect) == "[" \o JoinFloats(rect.items) \o "]"

RECURSIVE MappedPage(_, _, _)
MappedPage(pdf, i, target_xref) ==
    IF i > Len(pdf.pages) THEN 0
    ELSE IF PageXref(pdf, i) = target_xref THEN i
    ELSE MappedPage(pdf, i + 1, target_xref)

PageNum(pdf, p_val) ==
    IF p_val.kind = "absent" THEN ""
    ELSE LET mapped_page_index == MappedPage(pdf, 1, p_val.objgen[1]) IN
         IF mapped_page_index # 0 THEN ToString(mapped_page_index) ELSE "(invalid)"

PageIdStr(p_val) ==
    IF p_val.kind = "absent" THEN ""
    ELSE ToString(p_val.objgen[1]) \o " " \o ToString(p_val.objgen[2]) \o " R"

Row(pdf, phys_page_num, h) ==
    LET annot == pdf.objs[h] IN
    [Field |-> annot.T, PhysPage |-> phys_page_num,
     Page |-> PageNum(pdf, annot.P), PageId |-> PageIdStr(annot.P),
     Rect |-> RectStr(annot.Rect)]

RECURSIVE AnnotRows(_, _, _, _)
AnnotRows(pdf, phys_page_num, annots, k) ==
    IF k > Len(annots) THEN <<>>
    ELSE IF pdf.objs[annots[k]].Subtype # "/Widget"
         THEN AnnotRows(pdf, phys_page_num, annots, k + 1)
         ELSE <<Row(pdf, phys_page_num, annots[k])>>
              \o AnnotRows(pdf, phys_page_num, annots, k + 1)

RECURSIVE PageRows(_, _)
PageRows(pdf, i) ==
    IF i > Len(pdf.pages) THEN <<>>
    ELSE AnnotRows(pdf, i, pdf.pages[i].Annots.items, 1) \o PageRows(pdf, i + 1)

\* the rows the table shows after refresh_fields()
refresh_fields(bytes) ==
    IF bytes = None THEN <<>>
    ELSE IF ~CanOpen(bytes) THEN <<>>
    ELSE PageRows(bytes.doc, 1)

----------------------------------------------------------------------------
(* Change Applicator                                                       *)

Outcome(cur, stack, outcome, invoked, refreshed) ==
    [current |-> cur, undo_stack |-> stack, outcome |-> outcome,
     invoked |-> invoked, refreshed |-> refreshed]

\* id(): an identity no live bytes object has; the live ones are the
\* entries of the stack and the current buffer
FreshId(cur, stack) ==
    CHOOSE i \in 1..(Len(stack) + 2) :
        i # cur.id /\ \A k \in 1..Len(stack) : stack[k].id # i

\* apply_change with the new bytes pushed in place of the previous ones
apply_change_pushes_new(cur, stack, req, save_ok) ==
    IF cur = None THEN Outcome(cur, stack, "no document", FALSE, FALSE)
    ELSE LET prev_bytes == cur IN
         IF ~CanOpen(prev_bytes) THEN Outcome(cur, stack, "parse error", FALSE, FALSE)
         ELSE LET res == change_func(req, prev_bytes.doc)
                  new_bytes == Save(res.pdf, FreshId(cur, stack))
              IN
              CASE res.status = "raise" -> Outcome(cur, stack, "change error", TRUE, FALSE)
                [] res.status = "unchanged" -> Outcome(cur, stack, res.note, TRUE, FALSE)
                [] ~save_ok -> Outcome(cur, stack, "save error", TRUE, FALSE)
                [] OTHER -> Outcome(new_bytes, Append(stack, new_bytes),
                                    res.note, TRUE, TRUE)

\* apply_change with the push done before the try block
apply_change_pushes_first(cur, stack, req, save_ok) ==
    IF cur = None THEN Outcome(cur, stack, "no document", FALSE, FALSE)
    ELSE LET prev_bytes == cur
             pushed == Append(stack, prev_bytes)
         IN
         IF ~CanOpen(prev_bytes) THEN Outcome(cur, pushed, "parse error", FALSE, FALSE)
         ELSE LET res == change_func(req, prev_bytes.doc) IN
              CASE res.status = "raise" -> Outcome(cur, pushed, "change error", TRUE, FALSE)
                [] res.status = "unchanged" -> Outcome(cur, stack, res.note, TRUE, FALSE)
                [] ~save_ok -> Outcome(cur, pushed, "save error", TRUE, FALSE)
                [] OTHER -> Outcome(Save(res.pdf, FreshId(cur, stack)), pushed,
                                    res.note, TRUE, TRUE)

\* apply_change without the "no document" guard of lines 140-142
apply_change_unguarded(cur, stack, req, save_ok) ==
    LET prev_bytes == cur IN
    IF ~CanOpen(prev_bytes) THEN Outcome(cur, stack, "parse error", FALSE, FALSE)
    ELSE LET res == change_func(req, prev_bytes.doc) IN
         CASE res.status = "raise" -> Outcome(cur, stack, "change error", TRUE, FALSE)
           [] res.status = "unchanged" -> Outcome(cur, stack, res.note, TRUE, FALSE)
           [] ~save_ok -> Outcome(cur, stack, "save error", TRUE, FALSE)
           [] OTHER -> Outcome(Save(res.pdf, FreshId(cur, stack)),
                               Append(stack, prev_bytes), res.note, TRUE, TRUE)

\* save_ok: whether pdf.save succeeds
apply_change(cur, stack, req, save_ok) ==
    IF cur = None THEN Outcome(cur, stack, "no document", FALSE, FALSE)
    ELSE LET prev_bytes == cur IN
         IF ~CanOpen(prev_bytes) THEN Outcome(cur, stack, "parse error", FALSE, FALSE)
         ELSE LET res == change_func(req, prev_bytes.doc) IN
              CASE res.status = "raise" -> Outcome(cur, stack, "change error", TRUE, FALSE)
                [] res.status = "unchanged" -> Outcome(cur, stack, res.note, TRUE, FALSE)
                [] ~save_ok -> Outcome(cur, stack, "save error", TRUE, FALSE)
                [] OTHER -> Outcome(Save(res.pdf, FreshId(cur, stack)),
                                    Append(stack, prev_bytes), res.note, TRUE, TRUE)

\* the notes of the procedures that report a change
Successes == {"rect cleared", "rect deleted", "rect set", "p deleted",
              "nothing to delete p", "p emptied", "p set", "p invalid"}

\* the except branch of apply_change: "ERROR (action): e"
Errors == {"parse error", "change error", "save error"}

\* the procedures that report no change
NoChanges == {"field not found", "nothing to delete"}

\* undo taking the oldest entry of the stack in place of the newest
undo_pops_oldest(cur, stack) ==
    [current |-> stack[1], undo_stack |-> Tail(stack)]

\* the store after action_undo on a non-empty stack
undo(cur, stack) ==
    [current |-> stack[Len(stack)],
     undo_stack |-> SubSeq(stack, 1, Len(stack) - 1)]

Store(cur, stack) == [current |-> cur, undo_stack |-> stack]

----------------------------------------------------------------------------
(* State machine: one action per button handler                            *)

\* what the last handler was asked and told the operator (message box or
\* log line): the action, the message, the field or path it worked on, the
\* text typed into the page prompt and the page number it parsed to
Last(op, outcome, name, typed, page) ==
    [op |-> op, outcome |-> outcome, name |-> name, typed |-> typed,
     page |-> page]

MutationOps == {"clear_rect", "delete_rect_key", "set_rect", "delete_p", "set_p"}

Init ==
    /\ current_pdf_bytes = None
    /\ undo_stack = <<>>
    /\ pdf_path_var = ""
    /\ tree = <<>>
    /\ last = Last("start", "", "", <<>>, 0)

\* the handler returned before apply_change
Returned(op, outcome) ==
    /\ last' = Last(op, outcome, "", <<>>, 0)
    /\ UNCHANGED <<current_pdf_bytes, undo_stack, pdf_path_var, tree>>

Commit(op, req, typed, page, r) ==
    /\ r.outcome \in Successes => Len(undo_stack) < MaxUndo
    /\ current_pdf_bytes' = r.current
    /\ undo_stack' = r.undo_stack
    /\ tree' = IF r.refreshed THEN refresh_fields(r.current) ELSE tree
    /\ UNCHANGED pdf_path_var
    /\ last' = Last(op, r.outcome, req.name, typed, page)

\* the handler reached apply_change(change, ...); pdf.save works or raises
Applied(op, req, typed, page) ==
    LET saved == apply_change(current_pdf_bytes, undo_stack, req, TRUE)
        failed == apply_change(current_pdf_bytes, undo_stack, req, FALSE)
    IN  \/ Commit(op, req, typed, page, saved)
        \/ saved.outcome \in Successes /\ Commit(op, req, typed, page, failed)

\* the distinct field names the table lets the operator select
Selectable == {tree[k].Field : k \in 1..Len(tree)} \ {""}

\* nothing selected, or a row without a name: get_selected_field gives up
NoSelection(op) == Returned(op, "no selection")

\* choose_pdf without the reset of undo_stack (line 190)
choose_pdf_keeps_history ==
    \E path \in Paths \cup {Cancel} :
        IF path = Cancel THEN Returned("open", "cancel")
        ELSE IF path \notin DOMAIN Disk THEN Returned("open", "read error")
        ELSE /\ current_pdf_bytes' = [Disk[path] EXCEPT !.id = FreshId(None, undo_stack)]
             /\ undo_stack' = undo_stack
             /\ pdf_path_var' = path
             /\ tree' = refresh_fields(current_pdf_bytes')
             /\ last' = Last("open", "opened", path, <<>>, 0)

choose_pdf ==
    \E path \in Paths \cup {Cancel} :
        IF path = Cancel THEN Returned("open", "cancel")
        ELSE IF path \notin DOMAIN Disk THEN Returned("open", "read error")
        ELSE /\ current_pdf_bytes' = [Disk[path] EXCEPT !.id = 1]
             /\ undo_stack' = <<>>
             /\ pdf_path_var' = path
             /\ tree' = refresh_fields(current_pdf_bytes')
             /\ last' = Last("open", "opened", path, <<>>, 0)

action_save_as ==
    \E path \in {Cancel, "output.pdf", "readonly.pdf"} :
        IF current_pdf_bytes = None THEN Returned("save_as", "no document")
        ELSE IF path = Cancel THEN Returned("save_as", "cancel")
        ELSE IF path = "readonly.pdf" THEN Returned("save_as", "write error")
        ELSE Returned("save_as", "saved")

\* action_undo without the call of refresh_fields (line 232)
action_undo_keeps_table ==
    IF undo_stack = <<>> THEN Returned("undo", "nothing to undo")
    ELSE /\ current_pdf_bytes' = undo(current_pdf_bytes, undo_stack).current
         /\ undo_stack' = undo(current_pdf_bytes, undo_stack).undo_stack
         /\ tree' = tree
         /\ last' = Last("undo", "undone", "", <<>>, 0)
         /\ UNCHANGED pdf_path_var

action_undo ==
    IF undo_stack = <<>> THEN Returned("undo", "nothing to undo")
    ELSE /\ current_pdf_bytes' = undo(current_pdf_bytes, undo_stack).current
         /\ undo_stack' = undo(current_pdf_bytes, undo_stack).undo_stack
         /\ tree' = refresh_fields(current_pdf_bytes')
         /\ last' = Last("undo", "undone", "", <<>>, 0)
         /\ UNCHANGED pdf_path_var

\* the "Reload fields" button
reload_fields ==
    /\ tree' = refresh_fields(current_pdf_bytes)
    /\ last' = Last("reload", "reloaded", "", <<>>, 0)
    /\ UNCHANGED <<current_pdf_bytes, undo_stack, pdf_path_var>>

action_clear_rect ==
    \/ NoSelection("clear_rect")
    \/ \E name \in Selectable :
           Applied("clear_rect", Req("clear_rect", name, <<>>, 0), <<>>, 0)

action_delete_rect_key ==
    \/ NoSelection("delete_rect_key")
    \/ \E name \in Selectable :
           Applied("delete_rect_key", Req("delete_rect_key", name, <<>>, 0), <<>>, 0)

\* rect = <<>>: one of the four prompts was cancelled
action_set_rect ==
    \/ NoSelection("set_rect")
    \/ \E name \in Selectable, rect \in RectInputs \cup {<<>>} :
           IF rect = <<>> THEN Returned("set_rect", "cancel")
           ELSE Applied("set_rect", Req("set_rect", name, rect, 0), <<>>, 0)

action_delete_p ==
    \/ NoSelection("delete_p")
    \/ \E name \in Selectable :
           Applied("delete_p", Req("delete_p", name, <<>>, 0), <<>>, 0)

action_set_p ==
    \/ NoSelection("set_p")
    \/ \E name \in Selectable :
           \/ Returned("set_p", "cancel")
           \/ \E typed \in PageStrs :
                  LET page_str == Strip(typed) IN
                  IF page_str = <<>>
                  THEN Applied("set_p", Req("set_p_empty", name, <<>>, 0), typed, 0)
                  ELSE IF ~IsInt(page_str) THEN Returned("set_p", "bad input")
                  ELSE LET page == Int_(page_str) IN
                       Applied("set_p", Req("set_p", name, <<>>, page - 1), typed, page)

Next ==
    \/ choose_pdf
    \/ action_save_as
    \/ action_undo
    \/ reload_fields
    \/ action_clear_rect
    \/ action_delete_rect_key
    \/ action_set_rect
    \/ action_delete_p
    \/ action_set_p

Spec == Init /\ [][Next]_vars

----------------------------------------------------------------------------
(* Properties                                                              *)

\* the requests the handlers can pass to apply_change in the current state
Requests ==
    {Req(op, name, <<>>, 0) :
        op \in {"clear_rect", "delete_rect_key", "delete_p", "set_p_empty"},
        name \in Selectable \cup {"A"}}
    \cup {Req("set_rect", name, rect, 0) : name \in Selectable \cup {"A"},
                                            rect \in RectInputs}
    \cup {Req("set_p", name, <<>>, i) : name \in Selectable \cup {"A"},
                                         i \in -2..2}

\* the step just taken was a mutation that apply_change committed
Mutated == last'.op \in MutationOps /\ last'.outcome \in Successes

\* the field the step just taken worked on, located in the buffer it started from
Target == load_widget(current_pdf_bytes.doc, last'.name)

\* C1: a successful mutation followed at once by Undo gives back exactly the
\* buffer that was current before the mutation, and the history stack it
\* had then.
C1_MutateThenUndoRestores ==
    [][Mutated => /\ undo_stack' # <<>>
                  /\ undo(current_pdf_bytes', undo_stack')
                         = Store(current_pdf_bytes, undo_stack)]_vars

\* an Undo has brought the opened file back after a mutation
C1_Witness ==
    /\ last.outcome = "undone"
    /\ undo_stack = <<>>
    /\ current_pdf_bytes.form = "original"

\* C2: when the parse, the mutation procedure or the save fails inside
\* apply_change, the current buffer and the history stack are what they were.
C2_FailureLeavesStore ==
    [][/\ last'.outcome \in Errors =>
              UNCHANGED <<current_pdf_bytes, undo_stack>>
       /\ ~CanOpen(current_pdf_bytes) =>
              \A req \in Requests, save_ok \in BOOLEAN :
                  LET r == apply_change(current_pdf_bytes, undo_stack, req, save_ok)
                  IN  Store(r.current, r.undo_stack)
                          = Store(current_pdf_bytes, undo_stack)]_vars

\* a save failed with a history already there
C2_Witness ==
    /\ last.op \in MutationOps
    /\ last.outcome = "save error"
    /\ undo_stack # <<>>

\* C3: a mutation procedure that reports no change leaves the current
\* buffer and the history stack alone; "Delete rectangle key" on a field
\* without /Rect and any operation on a field the locator does not find
\* report no change.
C3_NoChangeLeavesStore ==
    [][/\ last'.outcome \in NoChanges =>
              UNCHANGED <<current_pdf_bytes, undo_stack>>
       /\ (last'.op \in MutationOps /\ last'.name # "" /\ Target.status = "none")
              => last'.outcome = "field not found"
       /\ (/\ last'.op = "delete_rect_key" /\ last'.name # ""
           /\ Target.status = "found"
           /\ current_pdf_bytes.doc.objs[Target.h].Rect.kind = "absent")
              => last'.outcome = "nothing to delete"]_vars

\* "Delete rectangle key" was pressed on a field without /Rect
C3_Witness ==
    /\ last.op = "delete_rect_key"
    /\ last.outcome = "nothing to delete"
    /\ undo_stack # <<>>

\* C4 as claimed: no entry of the history stack is equal, byte for byte, to
\* the current buffer.
C4_NoEntryEqualsCurrent ==
    \A k \in 1..Len(undo_stack) : ~SameBytes(undo_stack[k], current_pdf_bytes)

\* C4 (amended): no entry of the history stack is the current buffer object
\* itself, and no buffer object is in the stack twice; an entry may still
\* hold the same bytes as the current buffer.
C4_NoEntryIsCurrent ==
    /\ \A k \in 1..Len(undo_stack) : undo_stack[k].id # current_pdf_bytes.id
    /\ \A j, k \in 1..Len(undo_stack) :
           undo_stack[j].id = undo_stack[k].id => j = k

\* a mutation rewrote the document to the bytes of its predecessor
C4_Witness ==
    /\ last.outcome \in Successes
    /\ undo_stack # <<>>
    /\ SameBytes(undo_stack[Len(undo_stack)], current_pdf_bytes)

\* C5: a successful Open makes the file's contents current and empties the
\* history; a cancelled or failed Open changes neither; a committed mutation
\* lengthens the history by one, an Undo on a non-empty history shortens it
\* by one.
C5_OpenResetsHistory ==
    [][/\ (last'.op = "open" /\ last'.outcome = "opened") =>
              /\ SameBytes(current_pdf_bytes', Disk[last'.name])
              /\ undo_stack' = <<>>
       /\ (last'.op = "open" /\ last'.outcome # "opened") =>
              UNCHANGED <<current_pdf_bytes, undo_stack>>
       /\ Mutated => Len(undo_stack') = Len(undo_stack) + 1
       /\ (last'.op = "undo" /\ undo_stack # <<>>) =>
              Len(undo_stack') = Len(undo_stack) - 1]_vars

\* a file has just been opened
C5_Witness ==
    /\ last.op = "open"
    /\ last.outcome = "opened"
    /\ undo_stack = <<>>
    /\ current_pdf_bytes.doc = Nested

\* C6: while no document is loaded, a mutation button ends in an error
\* message before any mutation procedure runs; apply_change itself refuses
\* with "no document" without invoking the procedure; the store stays as
\* it started.
C6_NoDocumentNoMutation ==
    current_pdf_bytes = None =>
        /\ undo_stack = <<>>
        /\ tree = <<>>
        /\ last.op \in MutationOps => last.outcome = "no selection"
        /\ \A req \in Requests, save_ok \in BOOLEAN :
               apply_change(current_pdf_bytes, undo_stack, req, save_ok)
                   = Outcome(None, <<>>, "no document", FALSE, FALSE)

\* a mutation button was pressed with no document loaded
C6_Witness ==
    /\ current_pdf_bytes = None
    /\ last.op = "set_p"

\* how many entries of an annotation list are the object h
RECURSIVE Count(_, _)
Count(annots, h) ==
    IF annots = <<>> THEN 0
    ELSE (IF Head(annots) = h THEN 1 ELSE 0) + Count(Tail(annots), h)

\* the pages whose annotation list holds the object h
PagesOf(pdf, h) ==
    {i \in 1..Len(pdf.pages) : Count(pdf.pages[i].Annots.items, h) > 0}

AnnotLists(pdf) == [i \in 1..Len(pdf.pages) |-> pdf.pages[i].Annots]

Shown(row) == \E k \in 1..Len(tree') : tree'[k] = row

\* the step just taken was "Set page link" on a field the locator found,
\* with pdf.save working
SetPOnField ==
    /\ last'.op = "set_p" /\ last'.name # ""
    /\ Target.status = "found"
    /\ last'.outcome # "save error"

\* C7 as claimed: "Set page link" with a valid page number N on a field that
\* is on no page's annotation list puts the field exactly once into page N's
\* list, makes its page link the reference to page N, and the table shows
\* its row on page N with linked page N.
C7_SetPageLinkBinds ==
    [][(/\ SetPOnField /\ last'.outcome = "p set"
        /\ PagesOf(current_pdf_bytes.doc, Target.h) = {})
           => LET N == last'.page
                  h == Target.h
                  pdf == current_pdf_bytes'.doc
              IN  /\ Count(pdf.pages[N].Annots.items, h) = 1
                  /\ pdf.objs[h].P = Ref(pdf.pages[N].obj, 0)
                  /\ Shown(Row(pdf, N, h))
                  /\ Row(pdf, N, h).Page = ToString(N)]_vars

\* C7 for a field held as an indirect object: the claim holds.
C7_IndirectFieldBinds ==
    [][(/\ SetPOnField /\ last'.outcome = "p set"
        /\ current_pdf_bytes.doc.objs[Target.h].indirect
        /\ PagesOf(current_pdf_bytes.doc, Target.h) = {})
           => LET N == last'.page
                  h == Target.h
                  pdf == current_pdf_bytes'.doc
              IN  /\ Count(pdf.pages[N].Annots.items, h) = 1
                  /\ pdf.objs[h].P = Ref(pdf.pages[N].obj, 0)
                  /\ Shown(Row(pdf, N, h))
                  /\ Row(pdf, N, h).Page = ToString(N)]_vars

\* C8: "Set page link" with a number outside 1..page count stores the
\* reference 9999 0, which is no page's; every row of the field then shows
\* "(invalid)"; no annotation list changes; the history grows by one.
C8_OutOfRangeDangles ==
    [][/\ (/\ SetPOnField /\ IsInt(Strip(last'.typed))
           /\ last'.page \notin 1..Len(current_pdf_bytes.doc.pages))
              => last'.outcome = "p invalid"
       /\ last'.outcome = "p invalid" =>
              LET h == Target.h
                  pdf == current_pdf_bytes'.doc
              IN  /\ pdf.objs[h].P = Ref(fake_objid, 0)
                  /\ \A i \in 1..Len(pdf.pages) : PageXref(pdf, i) # fake_objid
                  /\ PageNum(pdf, pdf.objs[h].P) = "(invalid)"
                  /\ \A i \in PagesOf(pdf, h) :
                         Shown(Row(pdf, i, h)) /\ Row(pdf, i, h).Page = "(invalid)"
                  /\ AnnotLists(pdf) = AnnotLists(current_pdf_bytes.doc)
                  /\ Len(undo_stack') = Len(undo_stack) + 1]_vars

\* a page number below 1 was typed and the row of the field shows "(invalid)"
C8_Witness ==
    /\ last.outcome = "p invalid"
    /\ last.page < 1
    /\ \E k \in 1..Len(tree) :
           /\ tree[k].Field = last.name
           /\ tree[k].Page = "(invalid)"
           /\ tree[k].PageId = "9999 0 R"

\* C9: "Set page link" with nothing but blanks typed leaves the field with a
\* page link that is present and empty, whatever it was before, and changes
\* no annotation list.
C9_EmptyInputEmptiesLink ==
    [][/\ (SetPOnField /\ Strip(last'.typed) = <<>>) => last'.outcome = "p emptied"
       /\ last'.outcome = "p emptied" =>
              LET h == Target.h
                  pdf == current_pdf_bytes'.doc
              IN  /\ pdf.objs[h].P = Arr(<<>>)
                  /\ pdf.objs[h].P # Absent
                  /\ AnnotLists(pdf) = AnnotLists(current_pdf_bytes.doc)]_vars

\* blanks were typed for a field whose page link was the dangling reference
C9_Witness ==
    /\ last.outcome = "p emptied"
    /\ last.typed = <<" ">>
    /\ undo_stack # <<>>
    /\ LET before == undo_stack[Len(undo_stack)].doc
           widget == load_widget(before, last.name)
       IN  before.objs[widget.h].P = Ref(fake_objid, 0)

\* C10 as claimed: "Delete page link" on a field that has no page link
\* reports no change: the history stack and the current buffer stay as
\* they were.
C10_DeleteAbsentLinkIsNoOp ==
    [][(/\ last'.op = "delete_p" /\ last'.name # ""
        /\ Target.status = "found"
        /\ current_pdf_bytes.doc.objs[Target.h].P.kind = "absent")
           => UNCHANGED <<current_pdf_bytes, undo_stack>>]_vars

\* the places <<page, position>> of the widget annotations in the pages'
\* annotation lists
WidgetSlots(pdf) ==
    UNION { { <<i, k>> : k \in { j \in 1..Len(pdf.pages[i].Annots.items) :
                pdf.objs[pdf.pages[i].Annots.items[j]].Subtype = "/Widget" } } :
            i \in 1..Len(pdf.pages) }

\* page order, then annotation order
Before(s, t) == s[1] < t[1] \/ (s[1] = t[1] /\ s[2] < t[2])

Names == {"A", "C", "G", "K", "D", "Z", "S", "T", "X"}

\* the objects in the order of the claim: for each top-level field its kids
\* in list order, then the field itself
RECURSIVE Order(_, _)
Order(pdf, i) ==
    IF i > Len(pdf.Fields) THEN <<>>
    ELSE pdf.objs[pdf.Fields[i]].Kids.items \o <<pdf.Fields[i]>> \o Order(pdf, i + 1)

\* the smallest member of a non-empty set of numbers
Least(S) == CHOOSE k \in S : \A j \in S : k <= j

HasFieldList(pdf) == pdf.AcroForm = "fields"

\* C12 as claimed: the locator returns the first object of that order whose
\* name is the target, and not-found when there is no form dictionary, no
\* field list or no such object.
C12_FirstMatchOrNotFound ==
    CanOpen(current_pdf_bytes) =>
        \A field_name \in Names :
            LET pdf == current_pdf_bytes.doc
                ord == Order(pdf, 1)
                hits == {k \in 1..Len(ord) : pdf.objs[ord[k]].T = field_name}
            IN  load_widget(pdf, field_name)
                    = IF ~HasFieldList(pdf) \/ hits = {} THEN NotFound
                      ELSE Found(ord[Least(hits)])

\* C12 (amended): the same as long as no null object comes before the first
\* match in that order; when one does, the lookup raises.
C12_FirstMatchOrNullRaises ==
    CanOpen(current_pdf_bytes) =>
        \A field_name \in Names :
            LET pdf == current_pdf_bytes.doc
                ord == Order(pdf, 1)
                stops == {k \in 1..Len(ord) : \/ pdf.objs[ord[k]].T = field_name
                                              \/ pdf.objs[ord[k]].kind = "null"}
                r == load_widget(pdf, field_name)
            IN  /\ r = IF ~HasFieldList(pdf) \/ stops = {} THEN NotFound
                       ELSE IF pdf.objs[ord[Least(stops)]].kind = "null" THEN Raised
                       ELSE Found(ord[Least(stops)])
                /\ r.status = "found" =>
                       \/ \E i \in 1..Len(pdf.Fields) : pdf.Fields[i] = r.h
                       \/ \E i \in 1..Len(pdf.Fields) :
                              LET kids == pdf.objs[pdf.Fields[i]].Kids.items
                              IN  \E j \in 1..Len(kids) : kids[j] = r.h

\* the document open has the name T on a group, on its kid and on a later
\* top-level field, and a mutation went to the kid
C12_Witness ==
    /\ last.op \in MutationOps
    /\ last.name = "T"
    /\ last.outcome \in Successes
    /\ load_widget(current_pdf_bytes.doc, "T") = Found(2)
    /\ current_pdf_bytes.doc.objs[1].T = "T"
    /\ current_pdf_bytes.doc.objs[3].T = "T"
    /\ current_pdf_bytes.doc.Fields = <<1, 3>>

\* the page numbers "Set page link" takes as valid
ValidPages(pdf) == 1..Len(pdf.pages)

Opened == [Disk[pdf_path_var] EXCEPT !.id = 1]

\* Undo pressed until the history is empty
RECURSIVE UndoAll(_, _)
UndoAll(cur, stack) ==
    IF stack = <<>> THEN Store(cur, stack)
    ELSE UndoAll(undo(cur, stack).current, undo(cur, stack).undo_stack)

\* C14: once a file has been opened, the oldest entry of a non-empty history
\* is the buffer that was opened, with an empty history the current buffer is
\* that buffer, and undoing until the history is empty ends with it.
C14_BottomIsOpened ==
    IF pdf_path_var = ""
    THEN current_pdf_bytes = None /\ undo_stack = <<>>
    ELSE /\ undo_stack # <<>> => undo_stack[1] = Opened
         /\ undo_stack = <<>> => current_pdf_bytes = Opened
         /\ UndoAll(current_pdf_bytes, undo_stack) = Store(Opened, <<>>)

\* two mutations and one Undo after the Open: the history still starts with
\* the opened buffer, which is not the current one
C14_Witness ==
    /\ last.outcome = "undone"
    /\ Len(undo_stack) = 1
    /\ undo_stack[1] = Opened
    /\ ~SameBytes(current_pdf_bytes, Opened)

\* the list a begins the list b
IsPrefix(a, b) == Len(a) <= Len(b) /\ SubSeq(b, 1, Len(a)) = a

\* C15: a committed mutation takes no entry out of any page's annotation
\* list and the table does not get shorter; "Set page link" with a valid
\* page N on a field in the list of another page M puts it into page N's
\* list and leaves it in page M's, and the table then shows the field on
\* physical pages M and N, both rows with linked page N.
C15_AnnotationsOnlyGrow ==
    [][Mutated =>
          LET before == current_pdf_bytes.doc
              after == current_pdf_bytes'.doc
              N == last'.page
              h == Target.h
          IN  /\ Len(after.pages) = Len(before.pages)
              /\ \A i \in 1..Len(before.pages) :
                     IsPrefix(before.pages[i].Annots.items, after.pages[i].Annots.items)
              /\ Len(tree') >= Len(tree)
              /\ (/\ last'.outcome = "p set"
                  /\ PagesOf(before, h) \ {N} # {})
                     => /\ PagesOf(after, h) = PagesOf(before, h) \cup {N}
                        /\ \A M \in PagesOf(before, h) \cup {N} :
                               /\ Shown(Row(after, M, h))
                               /\ Row(after, M, h).Page = ToString(N)]_vars

\* "Set page link" with page 2 on a field that was in page 1's list only: the
\* table shows the field on physical pages 1 and 2, both linked to page 2
C15_Witness ==
    /\ last.op = "set_p" /\ last.outcome = "p set" /\ last.page = 2
    /\ undo_stack # <<>>
    /\ LET before == undo_stack[Len(undo_stack)].doc
           h == load_widget(before, last.name).h
       IN  PagesOf(before, h) = {1}
    /\ \E j, k \in 1..Len(tree) :
           /\ tree[j].Field = last.name /\ tree[j].PhysPage = 1 /\ tree[j].Page = "2"
           /\ tree[k].Field = last.name /\ tree[k].PhysPage = 2 /\ tree[k].Page = "2"

====
